---- MODULE Spec2Model ----
(***************************************************************************)
(* SGAIP reference implementation (k-kaundal/sgaip): identity derivation,  *)
(* challenge signing and offline proof verification (sgaip/core.py), the   *)
(* package CLI (sgaip/cli.py) and the standalone CLI (cli/sgaip_cli.py).   *)
(*                                                                         *)
(* Ed25519 and SHA-256 come from libraries outside the repository.  They   *)
(* are modelled symbolically, as ideal primitives: a signature is the term *)
(* (signer, message) plus its byte length and a damage mark, a digest is   *)
(* the term (preimage) plus the number of hex characters kept.  Byte       *)
(* strings are sequences of integers 0..255; Python str values that are    *)
(* encoded to bytes are sequences of code points.                          *)
(***************************************************************************)
EXTENDS Integers, Sequences, FiniteSets, TLC

VARIABLES
    pc,       \* position of the single thread of control
    vp,       \* frame of verify_proof: its arguments and locals
    vpres,    \* how the last verify_proof call ended
    trace,    \* operations performed by the call / command in progress
    last,     \* the library call just completed: operation, arguments, outcome
    memo,     \* one earlier completed library call, kept for comparison
    cli,      \* parsed arguments and locals of the CLI command in progress
    fs,       \* the files the CLI reads and writes
    stdout,   \* lines printed by the CLI command
    exit      \* how the CLI process ended

vars == <<pc, vp, vpres, trace, last, memo, cli, fs, stdout, exit>>

----------------------------------------------------------------------------
(* Sizes fixed by the signature scheme and the digest *)

KeyLen == 32
SigLen == 64
AidLen == 64

(* Bound of the model: how many distinct keypairs the entropy source yields *)

NumKeys == 2

----------------------------------------------------------------------------
(* Values *)

Rep(n, b) == [i \in 1..n |-> b]

\* b"SGAIP-v1"
IDENTITY_DOMAIN == <<83, 71, 65, 73, 80, 45, 118, 49>>

\* str values: hex digests and literals, told apart by what they spell
NoText == [kind |-> "none", of |-> <<>>, len |-> 0]
Zeros(n) == [kind |-> "zeros", of |-> <<>>, len |-> n]
Prefix(t, n) == [t EXCEPT !.len = n]

\* hashlib.sha256(b).hexdigest(): AidLen hex characters, one digest per preimage
Sha256Hex(b) == [kind |-> "sha256", of |-> b, len |-> AidLen]

\* Ed25519 objects
NoKey == [set |-> FALSE, raw |-> <<>>]
KeyObj(b) == [set |-> TRUE, raw |-> b]

\* The public point of a private seed (an injective stand-in for the scalar
\* multiplication: distinct seeds give distinct 32-byte public keys)
PublicBytesOf(seed) == [i \in 1..Len(seed) |-> 255 - seed[i]]

NoSig == [len |-> 0, by |-> <<>>, over |-> <<>>, damage |-> 0]

\* Ed25519PrivateKey.sign: deterministic, SigLen bytes
Ed25519Sign(sk, msg) ==
    [len |-> SigLen, by |-> PublicBytesOf(sk.raw), over |-> msg, damage |-> 0]

\* Ed25519PublicKey.verify: TRUE when it returns, FALSE when it raises
\* InvalidSignature
Ed25519Verify(pk, sig, msg) ==
    /\ sig.len = SigLen
    /\ sig.damage = 0
    /\ sig.by = pk.raw
    /\ sig.over = msg

\* from_public_bytes / from_private_bytes accept exactly KeyLen raw bytes
RawKeyOk(b) == Len(b) = KeyLen

\* corrupted signature bytes
FlipBit(s) == [s EXCEPT !.damage = 1]
Truncate(s) == [s EXCEPT !.len = @ - 1]

----------------------------------------------------------------------------
(* sgaip/core.py *)

derive_agent_id(public_key_bytes) == Sha256Hex(public_key_bytes \o IDENTITY_DOMAIN)

\* generate_keypair: the private keys the entropy source may yield
PrivateKeys == {KeyObj(Rep(KeyLen, k)) : k \in 1..NumKeys}

public_key(sk) == KeyObj(PublicBytesOf(sk.raw))

serialize_public_key(pk) == pk.raw

\* a signer that binds the protocol tag into what it signs
sign_challenge_tagged(private_key, challenge) ==
    Ed25519Sign(private_key, IDENTITY_DOMAIN \o challenge)

sign_challenge(private_key, challenge) == Ed25519Sign(private_key, challenge)

\* generate_keypair: every (private, public) pair a call may return
generate_keypair == {<<sk, public_key(sk)>> : sk \in PrivateKeys}

----------------------------------------------------------------------------
(* Inputs of the library calls *)

\* challenges: b"" and b"test"
Challenges == {<<>>, <<116, 101, 115, 116>>}

ValidPks == {serialize_public_key(kp[2]) : kp \in generate_keypair}

FirstPk == PublicBytesOf(Rep(KeyLen, 1))

\* canonical encodings, and one too short and one too long
PkInputs == ValidPks \cup {SubSeq(FirstPk, 1, KeyLen - 1), FirstPk \o <<0>>}

HonestSigs == {sign_challenge(kp[1], c) : kp \in generate_keypair, c \in Challenges}

FirstSig == Ed25519Sign(KeyObj(Rep(KeyLen, 1)), <<>>)

\* honest signatures, and one with a flipped bit and one cut short
SigInputs == HonestSigs \cup {FlipBit(FirstSig), Truncate(FirstSig)}

\* the key after pk in the ring of valid keys (pk itself when there is one key)
OtherPk(pk) ==
    IF \E q \in ValidPks : q # pk
    THEN CHOOSE q \in ValidPks : q # pk
    ELSE pk

\* expected_aid: omitted, the right AID, "0" * 64, the right AID less its last
\* character, the AID of another key
AidInputs(pk) ==
    { NoText,
      derive_agent_id(pk),
      Zeros(AidLen),
      Prefix(derive_agent_id(pk), AidLen - 1),
      derive_agent_id(OtherPk(pk)) }

----------------------------------------------------------------------------
(* Records of the state *)

NoFrame ==
    [caller |-> "none", pk |-> <<>>, ch |-> <<>>, sig |-> NoSig, aid |-> NoText,
     public_key |-> NoKey, derived_aid |-> NoText]

NoRes == [kind |-> "none", val |-> "", aid |-> NoText, sig |-> NoSig]
Returned(v) == [kind |-> "return", val |-> v, aid |-> NoText, sig |-> NoSig]
Raised(e) == [kind |-> "raise", val |-> e, aid |-> NoText, sig |-> NoSig]

NoCall ==
    [op |-> "none", pk |-> <<>>, ch |-> <<>>, sig |-> NoSig, aid |-> NoText,
     res |-> NoRes]

\* argparse: --message is None or a str, --file is None or a path
NoMessage == [given |-> FALSE, val |-> <<>>]
Message(m) == [given |-> TRUE, val |-> m]

NoCli ==
    [prog |-> "none", message |-> NoMessage, file |-> FALSE, sk |-> NoKey,
     pk |-> NoKey, public_bytes |-> <<>>, data |-> <<>>, signature |-> NoSig]

NoFs == [private |-> <<>>, public |-> <<>>, signature |-> NoSig, file |-> <<>>]

\* code -1: the process has not ended
NoExit == [code |-> -1, uncaught |-> "none", stderr |-> ""]

Init ==
    /\ pc = "idle"
    /\ vp = NoFrame
    /\ vpres = NoRes
    /\ trace = <<>>
    /\ last = NoCall
    /\ memo = NoCall
    /\ cli = NoCli
    /\ fs = NoFs
    /\ stdout = <<>>
    /\ exit = NoExit

----------------------------------------------------------------------------
(* Library calls made directly by a client of sgaip.core *)

\* derive_agent_id(b), a single expression
CallDeriveAgentId ==
    /\ pc = "idle"
    /\ \E b \in PkInputs :
         last' = [NoCall EXCEPT !.op = "derive", !.pk = b,
                                !.res = [Returned("") EXCEPT !.aid = derive_agent_id(b)]]
    /\ trace' = <<"derive_agent_id">>
    /\ pc' = "done"
    /\ UNCHANGED <<vp, vpres, memo, cli, fs, stdout, exit>>

\* sign_challenge(sk, c), a single expression
CallSignChallenge ==
    /\ pc = "idle"
    /\ \E kp \in generate_keypair, c \in Challenges :
         last' = [NoCall EXCEPT !.op = "sign", !.pk = serialize_public_key(kp[2]), !.ch = c,
                                !.res = [Returned("") EXCEPT !.sig = sign_challenge(kp[1], c)]]
    /\ trace' = <<"sign">>
    /\ pc' = "done"
    /\ UNCHANGED <<vp, vpres, memo, cli, fs, stdout, exit>>

\* verify_proof(public_key_bytes, challenge, signature, expected_aid) is entered
CallVerifyProof ==
    /\ pc = "idle"
    /\ \E public_key_bytes \in PkInputs, challenge \in Challenges, signature \in SigInputs :
         \E expected_aid \in AidInputs(public_key_bytes) :
            vp' = [NoFrame EXCEPT !.caller = "lib", !.pk = public_key_bytes,
                                  !.ch = challenge, !.sig = signature, !.aid = expected_aid]
    /\ pc' = "vp_l72"
    /\ trace' = <<>>
    /\ vpres' = NoRes
    /\ UNCHANGED <<last, memo, cli, fs, stdout, exit>>

\* verify_proof ends with res: the frame is dropped and control goes back to
\* the caller, the library client or cmd_verify of the package CLI
VpEnd(res) ==
    /\ vpres' = res
    /\ vp' = NoFrame
    /\ IF vp.caller = "lib"
       THEN /\ pc' = "done"
            /\ last' = [op |-> "verify", pk |-> vp.pk, ch |-> vp.ch, sig |-> vp.sig,
                        aid |-> vp.aid, res |-> res]
       ELSE /\ pc' = "pv_l94"
            /\ UNCHANGED last

\* a decoder that cuts or zero-pads the bytes to KeyLen instead of refusing them
VP_FromPublicBytes_coerce ==
    /\ pc = "vp_l72"
    /\ trace' = Append(trace, "from_public_bytes")
    /\ vp' = [vp EXCEPT !.public_key =
                 KeyObj([i \in 1..KeyLen |-> IF i <= Len(vp.pk) THEN vp.pk[i] ELSE 0])]
    /\ pc' = "vp_l75"
    /\ UNCHANGED <<vpres, last, memo, cli, fs, stdout, exit>>

\* line 72: public_key = Ed25519PublicKey.from_public_bytes(public_key_bytes)
VP_FromPublicBytes ==
    /\ pc = "vp_l72"
    /\ trace' = Append(trace, "from_public_bytes")
    /\ IF RawKeyOk(vp.pk)
       THEN /\ vp' = [vp EXCEPT !.public_key = KeyObj(vp.pk)]
            /\ pc' = "vp_l75"
            /\ UNCHANGED <<vpres, last>>
       ELSE VpEnd(Raised("ValueError"))
    /\ UNCHANGED <<memo, cli, fs, stdout, exit>>

\* a signature check whose failure is swallowed
VP_Verify_swallow ==
    /\ pc = "vp_l75"
    /\ trace' = Append(trace, "verify")
    /\ pc' = "vp_l78"
    /\ UNCHANGED <<vp, vpres, last, memo, cli, fs, stdout, exit>>

\* a signature check that rejects a proof the client has seen accepted before
VP_Verify_replay ==
    /\ pc = "vp_l75"
    /\ trace' = Append(trace, "verify")
    /\ IF /\ Ed25519Verify(vp.public_key, vp.sig, vp.ch)
          /\ ~(memo.op = "verify" /\ memo.sig = vp.sig /\ memo.res.val = "True")
       THEN /\ pc' = "vp_l78"
            /\ UNCHANGED <<vp, vpres, last>>
       ELSE VpEnd(Raised("InvalidSignature"))
    /\ UNCHANGED <<memo, cli, fs, stdout, exit>>

\* a signature check over a fixed message instead of the challenge presented
VP_Verify_nochallenge ==
    /\ pc = "vp_l75"
    /\ trace' = Append(trace, "verify")
    /\ IF Ed25519Verify(vp.public_key, vp.sig, vp.sig.over)
       THEN /\ pc' = "vp_l78"
            /\ UNCHANGED <<vp, vpres, last>>
       ELSE VpEnd(Raised("InvalidSignature"))
    /\ UNCHANGED <<memo, cli, fs, stdout, exit>>

\* line 75: public_key.verify(signature, challenge)
VP_Verify ==
    /\ pc = "vp_l75"
    /\ trace' = Append(trace, "verify")
    /\ IF Ed25519Verify(vp.public_key, vp.sig, vp.ch)
       THEN /\ pc' = "vp_l78"
            /\ UNCHANGED <<vp, vpres, last>>
       ELSE VpEnd(Raised("InvalidSignature"))
    /\ UNCHANGED <<memo, cli, fs, stdout, exit>>

\* line 78: derived_aid = derive_agent_id(public_key_bytes)
VP_Derive ==
    /\ pc = "vp_l78"
    /\ trace' = Append(trace, "derive_agent_id")
    /\ vp' = [vp EXCEPT !.derived_aid = derive_agent_id(vp.pk)]
    /\ pc' = "vp_l80"
    /\ UNCHANGED <<vpres, last, memo, cli, fs, stdout, exit>>

\* a comparison that accepts any expected_aid the derived AID starts with
VP_Return_prefix ==
    /\ pc = "vp_l80"
    /\ IF vp.aid # NoText
       THEN /\ trace' = Append(trace, "compare")
            /\ VpEnd(Returned(IF /\ vp.aid.len <= vp.derived_aid.len
                                  /\ Prefix(vp.derived_aid, vp.aid.len) = vp.aid
                               THEN "True" ELSE "False"))
       ELSE /\ trace' = trace
            /\ VpEnd(Returned("True"))
    /\ UNCHANGED <<memo, cli, fs, stdout, exit>>

\* lines 80-83: the comparison with expected_aid, or True
VP_Return ==
    /\ pc = "vp_l80"
    /\ IF vp.aid # NoText
       THEN /\ trace' = Append(trace, "compare")
            /\ VpEnd(Returned(IF vp.derived_aid = vp.aid THEN "True" ELSE "False"))
       ELSE /\ trace' = trace
            /\ VpEnd(Returned("True"))
    /\ UNCHANGED <<memo, cli, fs, stdout, exit>>

\* verify_proof, lines 63-83: its four steps
verify_proof ==
    \/ VP_FromPublicBytes
    \/ VP_Verify
    \/ VP_Derive
    \/ VP_Return

\* The client has read the result of the call and goes on to its next call
ClientNext ==
    /\ pc = "done"
    /\ pc' = "idle"
    /\ last' = NoCall
    /\ trace' = <<>>
    /\ UNCHANGED <<vp, vpres, memo, cli, fs, stdout, exit>>

\* The same, and the client keeps the call and its outcome to compare later
\* calls with it
Remember ==
    /\ pc = "done"
    /\ pc' = "idle"
    /\ memo' = last
    /\ last' = NoCall
    /\ trace' = <<>>
    /\ UNCHANGED <<vp, vpres, cli, fs, stdout, exit>>

NextCore ==
    \/ CallDeriveAgentId
    \/ CallSignChallenge
    \/ CallVerifyProof
    \/ verify_proof
    \/ ClientNext

Next == NextCore

Spec == Init /\ [][Next]_vars

IdemNext == NextCore \/ Remember

IdemSpec == Init /\ [][IdemNext]_vars

----------------------------------------------------------------------------
(* The command line: what both CLIs share *)

\* str.encode(): UTF-8, one byte below U+0080 and two below U+0800
Utf8(cp) == IF cp < 128 THEN <<cp>> ELSE <<192 + (cp \div 64), 128 + (cp % 64)>>

RECURSIVE Encode(_)
Encode(s) == IF s = <<>> THEN <<>> ELSE Utf8(Head(s)) \o Encode(Tail(s))

\* --message: absent, "", "test"
MessageArgs == {NoMessage, Message(<<>>), Message(<<116, 101, 115, 116>>)}

\* Python truth of args.message: None and "" are both false
Truthy(m) == m.given /\ Len(m.val) > 0

Commands == {"keygen", "sign", "verify"}

\* raw private keys on disk: the generated ones, and one a byte short
PrivateFiles ==
    {kp[1].raw : kp \in generate_keypair} \cup {Rep(KeyLen - 1, 1)}

\* the files the user has put in place before the first command
CliInit ==
    /\ pc = "idle"
    /\ vp = NoFrame
    /\ vpres = NoRes
    /\ trace = <<>>
    /\ last = NoCall
    /\ memo = NoCall
    /\ cli = NoCli
    /\ fs \in [private : PrivateFiles, public : PkInputs,
               signature : SigInputs \cup {NoSig}, file : Challenges]
    /\ stdout = <<>>
    /\ exit = NoExit

\* the process ends: `raise SystemExit(...)`, an exception nothing catches
\* (traceback, status 1), or main() returning (status 0)
Exit(code, uncaught, stderr) ==
    /\ pc' = "exited"
    /\ exit' = [code |-> code, uncaught |-> uncaught, stderr |-> stderr]

Uncaught(e) == Exit(1, e, "Traceback")

\* parse_args and `args.func(args)`: a fresh process with its arguments
Start(prefix) ==
    /\ pc \in {"idle", "exited"}
    /\ \E cmd \in Commands, m \in MessageArgs, f \in BOOLEAN :
         /\ cli' = [NoCli EXCEPT !.prog = prefix \o "_" \o cmd,
                                 !.message = IF cmd = "keygen" THEN NoMessage ELSE m,
                                 !.file = IF cmd = "keygen" THEN FALSE ELSE f]
         /\ pc' = prefix \o "_" \o cmd
    /\ trace' = <<>>
    /\ stdout' = <<>>
    /\ exit' = NoExit
    /\ UNCHANGED <<vp, vpres, last, memo, fs>>

\* `args.message.encode() if args.message else <contents of args.file>`; with
\* no --file the path is None and opening it raises TypeError
ReadsFile == ~Truthy(cli.message)
ChallengeData == IF Truthy(cli.message) THEN Encode(cli.message.val) ELSE fs.file

----------------------------------------------------------------------------
(* sgaip/cli.py, the package CLI *)

\* main, lines 107-131
PkgMain == Start("pkg")

\* cmd_keygen, lines 46-55
PkgKeygen ==
    /\ pc = "pkg_keygen"
    /\ \E kp \in generate_keypair :
         fs' = [fs EXCEPT !.private = kp[1].raw, !.public = serialize_public_key(kp[2])]
    /\ trace' = trace \o <<"generate", "write_keypair", "derive_agent_id">>
    /\ stdout' = stdout \o <<"Key pair generated:", "Agent ID">>
    /\ Exit(0, "none", "")
    /\ UNCHANGED <<vp, vpres, last, memo, cli>>

\* cmd_sign and cmd_verify, lines 59-63 and 79-83: exactly one of --message
\* and --file, tested by truth value
PkgCheckSources(next) ==
    /\ trace' = Append(trace, "check_sources")
    /\ IF ~Truthy(cli.message) /\ ~cli.file
       THEN Exit(1, "none", "Error: either --message or --file is required")
       ELSE IF Truthy(cli.message) /\ cli.file
            THEN Exit(1, "none", "Error: cannot specify both --message and --file")
            ELSE pc' = next /\ exit' = exit
    /\ UNCHANGED <<vp, vpres, last, memo, cli, fs, stdout>>

PS_Check ==
    /\ pc = "pkg_sign"
    /\ PkgCheckSources("ps_l65")

\* cmd_sign, lines 65-66: sk = _load_private(private_path)
PS_LoadPrivate ==
    /\ pc = "ps_l65"
    /\ trace' = Append(trace, "from_private_bytes")
    /\ IF RawKeyOk(fs.private)
       THEN /\ cli' = [cli EXCEPT !.sk = KeyObj(fs.private)]
            /\ pc' = "ps_l68"
            /\ exit' = exit
       ELSE /\ Uncaught("ValueError")
            /\ cli' = cli
    /\ UNCHANGED <<vp, vpres, last, memo, fs, stdout>>

\* cmd_sign, lines 68-71: the challenge bytes
PS_ReadData ==
    /\ pc = "ps_l68"
    /\ IF ReadsFile /\ ~cli.file
       THEN /\ Uncaught("TypeError")
            /\ cli' = cli
       ELSE /\ cli' = [cli EXCEPT !.data = ChallengeData]
            /\ pc' = "ps_l73"
            /\ exit' = exit
    /\ UNCHANGED <<vp, vpres, trace, last, memo, fs, stdout>>

\* cmd_sign, line 73: sig = sign_challenge(sk, data)
PS_Sign ==
    /\ pc = "ps_l73"
    /\ trace' = Append(trace, "sign")
    /\ cli' = [cli EXCEPT !.signature = sign_challenge(cli.sk, cli.data)]
    /\ pc' = "ps_l74"
    /\ UNCHANGED <<vp, vpres, last, memo, fs, stdout, exit>>

\* cmd_sign, lines 74-75: the signature file and the success line
PS_Write ==
    /\ pc = "ps_l74"
    /\ trace' = Append(trace, "write_signature")
    /\ fs' = [fs EXCEPT !.signature = cli.signature]
    /\ stdout' = Append(stdout, "Signature written")
    /\ Exit(0, "none", "")
    /\ UNCHANGED <<vp, vpres, last, memo, cli>>

PV_Check ==
    /\ pc = "pkg_verify"
    /\ PkgCheckSources("pv_l85")

\* cmd_verify, lines 85-91: the public key bytes, the challenge, the signature
PV_Load ==
    /\ pc = "pv_l85"
    /\ IF ReadsFile /\ ~cli.file
       THEN /\ Uncaught("TypeError")
            /\ cli' = cli
       ELSE /\ cli' = [cli EXCEPT !.public_bytes = fs.public, !.data = ChallengeData,
                                  !.signature = fs.signature]
            /\ pc' = "pv_l93"
            /\ exit' = exit
    /\ UNCHANGED <<vp, vpres, trace, last, memo, fs, stdout>>

\* a call that pins the identity: expected_aid is the AID of one known key
PV_CallVerifyProof_pinned ==
    /\ pc = "pv_l93"
    /\ vp' = [NoFrame EXCEPT !.caller = "pkg", !.pk = cli.public_bytes,
                             !.ch = cli.data, !.sig = cli.signature,
                             !.aid = derive_agent_id(FirstPk)]
    /\ vpres' = NoRes
    /\ pc' = "vp_l72"
    /\ UNCHANGED <<trace, last, memo, cli, fs, stdout, exit>>

\* cmd_verify, line 94: verify_proof(public_bytes, data, signature, expected_aid=None)
PV_CallVerifyProof ==
    /\ pc = "pv_l93"
    /\ vp' = [NoFrame EXCEPT !.caller = "pkg", !.pk = cli.public_bytes,
                             !.ch = cli.data, !.sig = cli.signature, !.aid = NoText]
    /\ vpres' = NoRes
    /\ pc' = "vp_l72"
    /\ UNCHANGED <<trace, last, memo, cli, fs, stdout, exit>>

\* cmd_verify, lines 95-104: `except Exception`, then `if ok`
PV_Result ==
    /\ pc = "pv_l94"
    /\ IF vpres.kind = "raise"
       THEN /\ stdout' = Append(stdout, "Verification failed")
            /\ Exit(2, "none", "")
       ELSE IF vpres.val = "True"
            THEN /\ stdout' = stdout \o <<"Signature valid", "Derived Agent ID">>
                 /\ Exit(0, "none", "")
            ELSE /\ stdout' = Append(stdout, "Signature invalid")
                 /\ Exit(2, "none", "")
    /\ trace' = IF vpres.kind = "return" /\ vpres.val = "True"
                THEN Append(trace, "derive_agent_id") ELSE trace
    /\ UNCHANGED <<vp, vpres, last, memo, cli, fs>>

----------------------------------------------------------------------------
(* cli/sgaip_cli.py, the standalone CLI *)

\* main, lines 106-130
SaMain == Start("sa")

\* cmd_keygen, lines 48-71
SaKeygen ==
    /\ pc = "sa_keygen"
    /\ \E kp \in generate_keypair :
         fs' = [fs EXCEPT !.private = kp[1].raw, !.public = serialize_public_key(kp[2])]
    /\ trace' = trace \o <<"generate", "write_keypair", "derive_agent_id">>
    /\ stdout' = stdout \o <<"Key pair generated", "Agent ID">>
    /\ Exit(0, "none", "")
    /\ UNCHANGED <<vp, vpres, last, memo, cli>>

\* cmd_sign, line 75: sk = load_private_key(args.private)
SS_LoadPrivate ==
    /\ pc = "sa_sign"
    /\ trace' = Append(trace, "from_private_bytes")
    /\ IF RawKeyOk(fs.private)
       THEN /\ cli' = [cli EXCEPT !.sk = KeyObj(fs.private)]
            /\ pc' = "ss_l77"
            /\ exit' = exit
       ELSE /\ Uncaught("ValueError")
            /\ cli' = cli
    /\ UNCHANGED <<vp, vpres, last, memo, fs, stdout>>

\* cmd_sign, line 77: the challenge bytes
SS_ReadData ==
    /\ pc = "ss_l77"
    /\ IF ReadsFile /\ ~cli.file
       THEN /\ Uncaught("TypeError")
            /\ cli' = cli
       ELSE /\ cli' = [cli EXCEPT !.data = ChallengeData]
            /\ pc' = "ss_l78"
            /\ exit' = exit
    /\ UNCHANGED <<vp, vpres, trace, last, memo, fs, stdout>>

\* cmd_sign, line 78: sig = sk.sign(data)
SS_Sign ==
    /\ pc = "ss_l78"
    /\ trace' = Append(trace, "sign")
    /\ cli' = [cli EXCEPT !.signature = Ed25519Sign(cli.sk, cli.data)]
    /\ pc' = "ss_l80"
    /\ UNCHANGED <<vp, vpres, last, memo, fs, stdout, exit>>

\* cmd_sign, lines 80-83: the signature file and the success line
SS_Write ==
    /\ pc = "ss_l80"
    /\ trace' = Append(trace, "write_signature")
    /\ fs' = [fs EXCEPT !.signature = cli.signature]
    /\ stdout' = Append(stdout, "Signature written")
    /\ Exit(0, "none", "")
    /\ UNCHANGED <<vp, vpres, last, memo, cli>>

\* cmd_verify, line 87: pk = load_public_key(args.public)
SV_LoadPublic ==
    /\ pc = "sa_verify"
    /\ trace' = Append(trace, "from_public_bytes")
    /\ IF RawKeyOk(fs.public)
       THEN /\ cli' = [cli EXCEPT !.pk = KeyObj(fs.public), !.public_bytes = fs.public]
            /\ pc' = "sv_l89"
            /\ exit' = exit
       ELSE /\ Uncaught("ValueError")
            /\ cli' = cli
    /\ UNCHANGED <<vp, vpres, last, memo, fs, stdout>>

\* cmd_verify, lines 89-90: the challenge bytes and the signature
SV_ReadData ==
    /\ pc = "sv_l89"
    /\ IF ReadsFile /\ ~cli.file
       THEN /\ Uncaught("TypeError")
            /\ cli' = cli
       ELSE /\ cli' = [cli EXCEPT !.data = ChallengeData, !.signature = fs.signature]
            /\ pc' = "sv_l92"
            /\ exit' = exit
    /\ UNCHANGED <<vp, vpres, trace, last, memo, fs, stdout>>

\* cmd_verify, line 92: pk.verify(signature, data), nothing catches its error
SV_Verify ==
    /\ pc = "sv_l92"
    /\ trace' = Append(trace, "verify")
    /\ IF Ed25519Verify(cli.pk, cli.signature, cli.data)
       THEN pc' = "sv_l94" /\ exit' = exit
       ELSE Uncaught("InvalidSignature")
    /\ UNCHANGED <<vp, vpres, last, memo, cli, fs, stdout>>

\* cmd_verify, lines 94-100: the AID and the success lines
SV_Print ==
    /\ pc = "sv_l94"
    /\ trace' = Append(trace, "derive_agent_id")
    /\ stdout' = stdout \o <<"Signature valid", "Derived Agent ID">>
    /\ Exit(0, "none", "")
    /\ UNCHANGED <<vp, vpres, last, memo, cli, fs>>

CliNext ==
    \/ PkgMain
    \/ PkgKeygen
    \/ PS_Check
    \/ PS_LoadPrivate
    \/ PS_ReadData
    \/ PS_Sign
    \/ PS_Write
    \/ PV_Check
    \/ PV_Load
    \/ PV_CallVerifyProof
    \/ verify_proof
    \/ PV_Result
    \/ SaMain
    \/ SaKeygen
    \/ SS_LoadPrivate
    \/ SS_ReadData
    \/ SS_Sign
    \/ SS_Write
    \/ SV_LoadPublic
    \/ SV_ReadData
    \/ SV_Verify
    \/ SV_Print

CliSpec == CliInit /\ [][CliNext]_vars

----------------------------------------------------------------------------
(* Properties of verify_proof, read off a completed library call *)

Ran(op) == \E i \in 1..Len(trace) : trace[i] = op

VerifyDone == pc = "done" /\ last.op = "verify"

\* the signature of the call verifies against its challenge under its key
SigVerifies(call) ==
    /\ RawKeyOk(call.pk)
    /\ Ed25519Verify(KeyObj(call.pk), call.sig, call.ch)

\* the call presents exactly what an honest signer produced
HonestProof(call) ==
    \E kp \in generate_keypair :
        /\ call.pk = serialize_public_key(kp[2])
        /\ call.sig = sign_challenge(kp[1], call.ch)

\* the call failed in step 1: an error, and no AID was derived or compared
RejectedAtStep1 ==
    /\ last.res.kind = "raise"
    /\ RawKeyOk(last.pk) => last.res.val = "InvalidSignature"
    /\ ~Ran("derive_agent_id")
    /\ ~Ran("compare")

\* C1: a call whose signature does not verify under the presented key ends
\* with the signature-invalid error, whatever expected_aid is; the AID is
\* derived and compared only after the signature check has passed, so no
\* boolean is returned for a bad signature.
C1_SignatureBeforeIdentity ==
    /\ pc \in {"vp_l78", "vp_l80"} /\ vp.caller = "lib" =>
          /\ Ran("verify")
          /\ Ed25519Verify(vp.public_key, vp.sig, vp.ch)
    /\ VerifyDone /\ RawKeyOk(last.pk) /\ ~SigVerifies(last) =>
          /\ last.res = Raised("InvalidSignature")
          /\ Ran("verify")
          /\ ~Ran("derive_agent_id")
          /\ ~Ran("compare")

C1_Witness ==
    /\ VerifyDone
    /\ RawKeyOk(last.pk)
    /\ ~SigVerifies(last)
    /\ last.aid = derive_agent_id(last.pk)
    /\ last.res = Raised("InvalidSignature")

\* C2: when the signature verifies and expected_aid is supplied, the call
\* returns a boolean: True for the AID of the presented key, False for 64
\* zeros, for a string of another length and for the AID of another key.
C2_IdentityCheckIsBoolean ==
    VerifyDone /\ SigVerifies(last) /\ last.aid # NoText =>
        /\ last.res.kind = "return"
        /\ last.aid = derive_agent_id(last.pk) => last.res.val = "True"
        /\ last.aid # derive_agent_id(last.pk) => last.res.val = "False"
        /\ last.aid.len # AidLen => last.res.val = "False"
        /\ last.aid = Zeros(AidLen) => last.res.val = "False"

C2_Witness ==
    /\ VerifyDone
    /\ SigVerifies(last)
    /\ last.aid = Zeros(AidLen)
    /\ last.res = Returned("False")

\* C3: verify_proof(serialize_public_key(pk), c, sign_challenge(sk, c)) without
\* expected_aid returns True for every generated keypair and every challenge.
C3_RoundTrip ==
    VerifyDone /\ HonestProof(last) /\ last.aid = NoText =>
        last.res = Returned("True")

C3_Witness ==
    /\ VerifyDone
    /\ HonestProof(last)
    /\ last.aid = NoText
    /\ last.ch = <<>>
    /\ last.res = Returned("True")

\* C4: with s = sign_challenge(sk, c), a call with s and another challenge or
\* the key of another keypair, or with c, the key and other signature bytes,
\* is rejected by the signature check and never returns True.
C4_TamperRejection ==
    VerifyDone =>
        \A kp \in generate_keypair, c \in Challenges :
            LET s == sign_challenge(kp[1], c)
                pk == serialize_public_key(kp[2])
            IN  ( \/ last.sig = s /\ (last.ch # c \/ (last.pk # pk /\ last.pk \in ValidPks))
                  \/ last.sig # s /\ last.ch = c /\ last.pk = pk )
                => (RejectedAtStep1 /\ last.res # Returned("True"))

C4_Witness ==
    /\ VerifyDone
    /\ last.sig \in HonestSigs
    /\ last.sig.by = last.pk
    /\ last.sig.over # last.ch
    /\ last.aid = derive_agent_id(last.pk)
    /\ last.res = Raised("InvalidSignature")

\* C5: derive_agent_id, sign_challenge and verify_proof called again with the
\* arguments of an earlier call, after any calls in between, end as the
\* earlier call did; the calls write no file and print nothing.
C5_Idempotent ==
    /\ pc = "done" /\ last.op = memo.op /\ last.pk = memo.pk /\ last.ch = memo.ch
         /\ last.sig = memo.sig /\ last.aid = memo.aid
         => last.res = memo.res
    /\ fs = NoFs
    /\ stdout = <<>>

C5_Witness ==
    /\ VerifyDone
    /\ memo.op = "verify"
    /\ memo.pk = last.pk /\ memo.ch = last.ch /\ memo.sig = last.sig /\ memo.aid = last.aid
    /\ memo.res = Returned("True")
    /\ last.res = Returned("True")

\* C9: a public key that is not KeyLen bytes long makes verify_proof fail with
\* the decoding error at its first step: no signature check, no AID derived
\* or compared, no boolean returned.
C9_MalformedKeyRejectedFirst ==
    VerifyDone /\ ~RawKeyOk(last.pk) =>
        /\ last.res = Raised("ValueError")
        /\ trace = <<"from_public_bytes">>

C9_Witness ==
    /\ VerifyDone
    /\ Len(last.pk) = KeyLen + 1
    /\ last.aid = derive_agent_id(last.pk)
    /\ last.res = Raised("ValueError")

----------------------------------------------------------------------------
(* Properties of the CLI sign and verify commands *)

SignOrVerify == cli.prog \in {"pkg_sign", "pkg_verify", "sa_sign", "sa_verify"}

Verifying == cli.prog \in {"pkg_verify", "sa_verify"}

Exited == pc = "exited"

\* what the command line supplied, as argparse reports it
NeitherSource == ~cli.message.given /\ ~cli.file
BothSources == cli.message.given /\ cli.file

\* the challenge the command line names
SuppliedChallenge ==
    IF cli.message.given THEN Encode(cli.message.val) ELSE fs.file

\* the signature file verifies over that challenge under the public key file
FilesVerify ==
    SigVerifies([pk |-> fs.public, sig |-> fs.signature, ch |-> SuppliedChallenge])

Printed(line) == \E i \in 1..Len(stdout) : stdout[i] = line

Success == Printed("Signature written") \/ Printed("Signature valid")

\* C6: a sign or verify command given neither or both of --message and
\* --file, or a verify command whose signature does not verify, never ends
\* with status 0 and never prints its success line (both CLIs).
C6_NonZeroExitOnFailure ==
    /\ SignOrVerify
    /\ NeitherSource \/ BothSources \/ (Verifying /\ ~FilesVerify)
    => /\ Exited => exit.code # 0
       /\ ~Success

\* C7: in a sign or verify command given neither or both of --message and
\* --file, no key is decoded, nothing is signed or verified and no signature
\* file is written (both CLIs).
C7_SourcesCheckedBeforeCrypto ==
    SignOrVerify /\ (NeitherSource \/ BothSources) =>
        /\ ~Ran("from_private_bytes")
        /\ ~Ran("from_public_bytes")
        /\ ~Ran("sign")
        /\ ~Ran("verify")
        /\ ~Ran("write_signature")

\* C8: an invalid signature, a public key of the wrong length and a private
\* key of the wrong length each end a CLI command in a handled failure, never
\* in an exception nothing catches, and a failed command prints no success
\* line and no AID.
C8_CryptoFailuresHandled ==
    Exited =>
        /\ exit.uncaught \notin {"InvalidSignature", "ValueError"}
        /\ exit.code # 0 => ~Success /\ ~Printed("Derived Agent ID")

\* C10: a sign or verify command given --message "" and no --file takes the
\* empty byte sequence as its challenge: it reports no missing input, does
\* not turn to the file source, and signs or verifies b"".
C10_EmptyMessageIsAChallenge ==
    Exited /\ SignOrVerify /\ cli.message = Message(<<>>) /\ ~cli.file =>
        /\ exit.stderr # "Error: either --message or --file is required"
        /\ exit.uncaught # "TypeError"
        /\ cli.prog \in {"pkg_sign", "sa_sign"} /\ RawKeyOk(fs.private) =>
              fs.signature = sign_challenge(KeyObj(fs.private), <<>>)
        /\ Verifying /\ RawKeyOk(fs.public) => Ran("verify")

\* what the package cmd_verify handed to verify_proof
LoadedProof == [pk |-> cli.public_bytes, sig |-> cli.signature, ch |-> cli.data]

\* the package cmd_verify has called verify_proof and the process has ended
PkgVerifyEnded == Exited /\ cli.prog = "pkg_verify" /\ Ran("from_public_bytes")

\* C11: the package cmd_verify calls verify_proof without expected_aid, so a
\* call that returns returns True and no AID is compared; "Signature invalid"
\* is never printed, every failed verification ends through the exception
\* path ("Verification failed", status 2), and the command succeeds exactly
\* when the signature check passes.
C11_PkgVerifyNeverComparesIdentity ==
    /\ vp.caller = "pkg" => vp.aid = NoText
    /\ cli.prog = "pkg_verify" =>
          /\ ~Ran("compare")
          /\ ~Printed("Signature invalid")
    /\ pc = "pv_l94" /\ vpres.kind = "return" => vpres.val = "True"
    /\ PkgVerifyEnded =>
          /\ exit.code = 0 <=> SigVerifies(LoadedProof)
          /\ exit.code # 0 =>
                /\ vpres.kind = "raise"
                /\ exit.code = 2
                /\ Printed("Verification failed")

C11_Witness ==
    /\ PkgVerifyEnded
    /\ RawKeyOk(cli.public_bytes)
    /\ ~SigVerifies(LoadedProof)
    /\ vpres = Raised("InvalidSignature")
    /\ exit.code = 2
    /\ stdout = <<"Verification failed">>

====
